---- MODULE Spec2Model ----
(***************************************************************************)
(* A model of the asynchronous job pipeline of nexusapi: the credit ledger *)
(* (app/services/credit_service.py), job submission (app/routes/jobs.py),  *)
(* the ARQ work queue and the two worker functions (app/worker.py).        *)
(*                                                                         *)
(* Every "await" of the Python code is a point where another request or    *)
(* worker may run, so every handler is cut into one action per database    *)
(* round trip whose result a later write depends on.  The ORM writes       *)
(* absolute values (UPDATE ... SET balance = <value computed in Python>),  *)
(* so a write is modelled as storing the value computed from the snapshot  *)
(* the handler read earlier.                                               *)
(***************************************************************************)
EXTENDS Integers, Sequences, FiniteSets, TLC

\* ---------------------------------------------------------------- bounds
\* submissions accepted by the pipeline, and direct calls made to the ledger
MaxSubmissions == 1
MaxCalls == 2
\* rows the jobs table can hold, and requests made to the submission routes alone
MaxJobs == 3
\* direct calls made to the job service
MaxServiceCalls == 4
\* calls of trigger_job_webhook
MaxTriggers == 2
\* submissions worked off while the result cache stays reachable
MaxCacheJobs == 2
\* the rate limiter, scaled down: limit stands for self.limit = 100 and
\* window (seconds) for self.window = 900; the clock runs to MaxTime ticks
limit == 2
window == 2
TicksPerSecond == 2
MaxTime == 6
MaxChecks == 3
MaxTenantOps == 3

Orgs == {"o1", "o2"}
SignupOrgs == {"o1"}
\* request-handler coroutines and ARQ worker coroutines; all of one kind are
\* alike, so new work is given to the first free one
ClientOrder == <<"c1", "c2">>
WorkerOrder == <<"w1", "w2">>
Clients == {ClientOrder[i] : i \in 1..Len(ClientOrder)}
Workers == {WorkerOrder[i] : i \in 1..Len(WorkerOrder)}
InitialBalances == {30, 100}
Texts == {"", "a"}
Amounts == {10, 25, 40}

\* ------------------------------------------------------- program constants
SummarizeCost == 10
AnalyzeCost == 25
max_tries == 3

JobTypes == {"summarize", "analyze"}
NoJob == 0

VARIABLES
    credit,       \* org_credits: org -> [exists, balance]
    initial,      \* the initial_balance each account was created with
    txns,         \* credit_transactions, in insertion order
    jobs,         \* jobs table: job id (1..Len) -> row
    item,         \* ARQ queue: job id -> [state, tries]
    client,       \* request handlers and direct callers of the ledger
    worker,       \* ARQ worker coroutines
    cache,        \* Redis result cache: set of cached input texts
    webhook,      \* organisations.webhook_url is set
    deliveries,   \* job id -> number of send_webhook tasks spawned
    requests,     \* number of requests started so far
    delivery,     \* webhook_deliveries rows and the send_webhook task
    limiter,      \* rate limiter: the clock, the sorted sets, the answers
    reply         \* the answer to the latest job query

vars == <<credit, initial, txns, jobs, item, client, worker, cache, webhook,
          deliveries, requests, delivery, limiter, reply>>

JobIds == 1..MaxJobs

\* ------------------------------------------------------------ credit ledger
Cost(t) == IF t = "summarize" THEN SummarizeCost ELSE AnalyzeCost

Txn(o, a, k, j) == [org |-> o, amount |-> a, kind |-> k, job |-> j]

\* CreditService.get_balance: 0 when the organisation has no credit record
get_balance(o) == IF credit[o].exists THEN credit[o].balance ELSE 0

\* mutants of the guard: the balance test forgotten, and a test for an empty
\* balance in place of the test against the amount
MutRefusedNoBalanceTest(o, a) == ~credit[o].exists

MutRefusedOnlyWhenEmpty(o, a) == ~credit[o].exists \/ credit[o].balance <= 0

\* the guard of CreditService.deduct_credits
DeductRefused(o, a) == ~credit[o].exists \/ credit[o].balance < a

IdleClient == [pc |-> "idle", op |-> "none", org |-> "o1", type |-> "summarize",
               text |-> "", amount |-> 0, snap |-> 0, res |-> "none",
               job |-> NoJob]

IdleWorker == [pc |-> "idle", job |-> NoJob, try |-> 0, attempt |-> 0, snap |-> 0]

FreeClient(c) ==
    \E i \in 1..Len(ClientOrder) :
        /\ ClientOrder[i] = c
        /\ client[c].pc = "idle"
        /\ \A k \in 1..(i - 1) : client[ClientOrder[k]].pc # "idle"

FreeWorker(w) ==
    \E i \in 1..Len(WorkerOrder) :
        /\ WorkerOrder[i] = w
        /\ worker[w].pc = "idle"
        /\ \A k \in 1..(i - 1) : worker[WorkerOrder[k]].pc # "idle"

\* CreditService.create_credit: inserts the credit record, no transaction
CreateCredit(o, b) ==
    /\ ~credit[o].exists
    /\ credit' = [credit EXCEPT ![o] = [exists |-> TRUE, balance |-> b]]
    /\ initial' = [initial EXCEPT ![o] = b]
    /\ UNCHANGED <<txns, jobs, item, client, worker, cache, webhook,
                   deliveries, requests, delivery, limiter, reply>>

Finish(c, r) == [IdleClient EXCEPT !.res = r]

\* CreditService.deduct_credits, first half: SELECT the credit record and
\* test it; a refusal returns False with nothing written
DeductRead(c) ==
    /\ client[c].pc = "deduct_read"
    /\ LET o == client[c].org
           a == client[c].amount
       IN  IF DeductRefused(o, a)
           THEN client' = [client EXCEPT ![c] = Finish(c, "deduct_failed")]
           ELSE client' = [client EXCEPT ![c].pc = "deduct_commit",
                                         ![c].snap = credit[o].balance]
    /\ UNCHANGED <<credit, initial, txns, jobs, item, worker, cache, webhook,
                   deliveries, requests, delivery, limiter, reply>>

\* what the commit of deduct_credits stores in org_credits.balance
DeductedBalance(snap, a) == snap - a

\* the transaction rows the commit of deduct_credits inserts
DeductRows(o, a) == <<Txn(o, a, "DEDUCTION", NoJob)>>

\* CreditService.deduct_credits, second half: one commit writes the balance
\* computed from the snapshot and inserts the DEDUCTION row (job_id is None
\* in every caller)
DeductCommit(c) ==
    /\ client[c].pc = "deduct_commit"
    /\ LET o == client[c].org
           a == client[c].amount
       IN  /\ credit' = [credit EXCEPT ![o].balance = DeductedBalance(client[c].snap, a)]
           /\ txns' = txns \o DeductRows(o, a)
    /\ client' = [client EXCEPT ![c] =
                    IF client[c].op = "submit"
                    THEN [client[c] EXCEPT !.pc = "create"]
                    ELSE Finish(c, "ok")]
    /\ UNCHANGED <<initial, jobs, item, worker, cache, webhook, deliveries,
                   requests, delivery, limiter, reply>>

\* CreditService.refund_credits, first half: SELECT the credit record
RefundRead(c) ==
    /\ client[c].pc = "refund_read"
    /\ LET o == client[c].org
       IN  IF ~credit[o].exists
           THEN client' = [client EXCEPT ![c] = Finish(c, "refund_failed")]
           ELSE client' = [client EXCEPT ![c].pc = "refund_commit",
                                         ![c].snap = credit[o].balance]
    /\ UNCHANGED <<credit, initial, txns, jobs, item, worker, cache, webhook,
                   deliveries, requests, delivery, limiter, reply>>

\* CreditService.refund_credits, second half: one commit writes the balance
\* and inserts the REFUND row
RefundCommit(c) ==
    /\ client[c].pc = "refund_commit"
    /\ LET o == client[c].org
           a == client[c].amount
       IN  /\ credit' = [credit EXCEPT ![o].balance = client[c].snap + a]
           /\ txns' = Append(txns, Txn(o, a, "REFUND", NoJob))
    /\ client' = [client EXCEPT ![c] = Finish(c, "ok")]
    /\ UNCHANGED <<initial, jobs, item, worker, cache, webhook, deliveries,
                   requests, delivery, limiter, reply>>

\* a direct call of deduct_credits(org, amount)
CallDeduct(c, o, a) ==
    /\ FreeClient(c)
    /\ requests < MaxCalls
    /\ requests' = requests + 1
    /\ client' = [client EXCEPT ![c] = [IdleClient EXCEPT !.pc = "deduct_read",
                     !.op = "deduct", !.org = o, !.amount = a]]
    /\ UNCHANGED <<credit, initial, txns, jobs, item, worker, cache, webhook,
                   deliveries, delivery, limiter, reply>>

\* a direct call of refund_credits(org, amount)
CallRefund(c, o, a) ==
    /\ FreeClient(c)
    /\ requests < MaxCalls
    /\ requests' = requests + 1
    /\ client' = [client EXCEPT ![c] = [IdleClient EXCEPT !.pc = "refund_read",
                     !.op = "refund", !.org = o, !.amount = a]]
    /\ UNCHANGED <<credit, initial, txns, jobs, item, worker, cache, webhook,
                   deliveries, delivery, limiter, reply>>

\* ---------------------------------------------------------- job submission
\* the row JobService.create_job inserts: PENDING, attempt_count 0; the
\* routes store {"text": ..., "credits": <cost>} as input_data
\* mutant: the row is inserted with one attempt already counted
MutNewJobCounted(o, t, x, cr) ==
    [org |-> o, type |-> t, text |-> x, credits |-> cr, status |-> "PENDING",
     attempt_count |-> 1, started |-> FALSE, completed |-> FALSE,
     output |-> "none", error |-> FALSE]

NewJob(o, t, x, cr) ==
    [org |-> o, type |-> t, text |-> x, credits |-> cr, status |-> "PENDING",
     attempt_count |-> 0, started |-> FALSE, completed |-> FALSE,
     output |-> "none", error |-> FALSE]

\* create_job_v2 and its siblings: the request is accepted for processing,
\* as long as fewer than most requests were made
StartSubmission(c, o, t, x, most) ==
    /\ FreeClient(c)
    /\ requests < most
    /\ requests' = requests + 1
    /\ client' = [client EXCEPT ![c] = [IdleClient EXCEPT !.pc = "check",
                     !.op = "submit", !.org = o, !.type = t, !.text = x,
                     !.amount = Cost(t)]]
    /\ UNCHANGED <<credit, initial, txns, jobs, item, worker, cache, webhook,
                   deliveries, delivery, limiter, reply>>

SubmitStart(c, o, t, x) == StartSubmission(c, o, t, x, MaxSubmissions)

\* mutant: a balance equal to the cost is taken as insufficient
MutInsufficientAtEqual(bal, a) == bal <= a

\* create_job_v2: "if balance < credits_required"
Insufficient(bal, a) == bal < a

\* balance = get_balance(org); 402 when balance < credits_required
SubmitCheck(c) ==
    /\ client[c].pc = "check"
    /\ client' = [client EXCEPT ![c] =
                    IF Insufficient(get_balance(client[c].org), client[c].amount)
                    THEN Finish(c, "insufficient")
                    ELSE [client[c] EXCEPT !.pc = "deduct_read"]]
    /\ UNCHANGED <<credit, initial, txns, jobs, item, worker, cache, webhook,
                   deliveries, requests, delivery, limiter, reply>>

\* job_service.create_job(...) inserts the row and commits; enqueue_job then
\* returns True when Redis took the item and False (nothing queued) when it
\* raised, and the routes ignore that result
CreateJob(c, redisUp) ==
    /\ client[c].pc = "create"
    /\ jobs' = Append(jobs, NewJob(client[c].org, client[c].type,
                                   client[c].text, client[c].amount))
    /\ item' = IF redisUp
               THEN [item EXCEPT ![Len(jobs) + 1].state = "queued"]
               ELSE item
    /\ client' = [client EXCEPT ![c] = Finish(c, "ok")]
    /\ UNCHANGED <<credit, initial, txns, worker, cache, webhook, deliveries,
                   requests, delivery, limiter, reply>>

\* ------------------------------------------------------------ ARQ workers
\* Only the attributes a handler assigned are written by its commit, and the
\* UPDATE is keyed by the job id alone (no condition on the stored status).
MarkRunning(j, n) ==
    [jobs EXCEPT ![j].status = "RUNNING", ![j].started = TRUE,
                 ![j].attempt_count = n]

\* mutant: completed_at is left unset
MutMarkCompletedNoStamp(j, out) ==
    [jobs EXCEPT ![j].status = "COMPLETED", ![j].output = out]

MarkCompleted(j, out) ==
    [jobs EXCEPT ![j].status = "COMPLETED", ![j].output = out,
                 ![j].completed = TRUE]

MarkFailed(j) ==
    [jobs EXCEPT ![j].status = "FAILED", ![j].error = TRUE,
                 ![j].completed = TRUE]

MarkRetry(j) ==
    [jobs EXCEPT ![j].status = "PENDING", ![j].error = TRUE]

\* ARQ records the run's result and removes the item from the queue
Ack(j) == [item EXCEPT ![j].state = "done"]

\* ARQ hands a queued item to a worker: job_try is the number of this run
Deliverable(j) ==
    /\ j \in 1..Len(jobs)
    /\ item[j].state = "queued"
    /\ item[j].tries < max_tries

\* mutant: the last try is taken to start one try early
MutIsLastTryEarly(t) == t >= max_tries - 1

\* process_summarize_job: "if job_try >= max_tries"
IsLastTry(t) == t >= max_tries

\* process_analyze_job: "if job.attempt_count >= 3"
AnalyzeExhausted(n) == n >= 3

\* mutant: the REFUND row is not added to the session
MutRefundRowsNone(j) == <<>>

\* what the terminal-failure commit of process_summarize_job adds to the
\* ledger: the rows inserted for job j
RefundRows(j) ==
    IF jobs[j].credits > 0
    THEN <<Txn(jobs[j].org, jobs[j].credits, "REFUND", j)>>
    ELSE <<>>

\* mutant: job_try is taken to count from 0
MutClaimedAttemptFromZero(t, try, loaded) ==
    IF t = "summarize" THEN try + 1 ELSE loaded + 1

\* the number the claiming commit stores in attempt_count: job_try in
\* process_summarize_job, the loaded attempt_count + 1 in process_analyze_job
ClaimedAttempt(t, try, loaded) == IF t = "summarize" THEN try ELSE loaded + 1

\* ARQ starts the run (job_try is counted) and the function loads the job:
\* process_summarize_job lines 71-82, process_analyze_job lines 182-188
JobRead(w, j) ==
    /\ FreeWorker(w)
    /\ Deliverable(j)
    /\ item' = [item EXCEPT ![j].tries = item[j].tries + 1]
    /\ worker' = [worker EXCEPT ![w] =
           [pc |-> "read", job |-> j, try |-> item[j].tries + 1,
            attempt |-> jobs[j].attempt_count, snap |-> 0]]
    /\ UNCHANGED <<credit, initial, txns, jobs, client, cache, webhook,
                   deliveries, requests, delivery, limiter, reply>>

\* the job is marked RUNNING whatever its stored status, with started_at and
\* attempt_count, and committed (lines 84-87, 190-193); an empty text then
\* raises ValueError inside the try block
ClaimCommit(w) ==
    /\ worker[w].pc = "read"
    /\ LET j == worker[w].job
           n == ClaimedAttempt(jobs[j].type, worker[w].try, worker[w].attempt)
       IN  /\ jobs' = MarkRunning(j, n)
           /\ worker' = [worker EXCEPT ![w].attempt = n,
                  ![w].pc = IF jobs[j].text = "" THEN "failed"
                            ELSE IF jobs[j].type = "summarize" THEN "lookup"
                            ELSE "compute"]
    /\ UNCHANGED <<credit, initial, txns, item, client, cache, webhook,
                   deliveries, requests, delivery, limiter, reply>>

\* get_from_cache returned the cached summary: COMPLETED, commit, return
CacheHit(w) ==
    /\ worker[w].pc = "lookup"
    /\ jobs[worker[w].job].text \in cache
    /\ jobs' = MarkCompleted(worker[w].job, "cached")
    /\ worker' = [worker EXCEPT ![w].pc = "return"]
    /\ UNCHANGED <<credit, initial, txns, item, client, cache, webhook,
                   deliveries, requests, delivery, limiter, reply>>

\* a lookup that lets the Redis error through to the try block
MutCacheMissRaises(w, cacheUp) ==
    /\ worker[w].pc = "lookup"
    /\ cacheUp => jobs[worker[w].job].text \notin cache
    /\ worker' = [worker EXCEPT ![w].pc = IF cacheUp THEN "compute" ELSE "failed"]
    /\ UNCHANGED <<credit, initial, txns, jobs, item, client, cache, webhook,
                   deliveries, requests, delivery, limiter, reply>>

\* get_from_cache returned None: the key is absent or the cache is down
CacheMiss(w, cacheUp) ==
    /\ worker[w].pc = "lookup"
    /\ cacheUp => jobs[worker[w].job].text \notin cache
    /\ worker' = [worker EXCEPT ![w].pc = "compute"]
    /\ UNCHANGED <<credit, initial, txns, jobs, item, client, cache, webhook,
                   deliveries, requests, delivery, limiter, reply>>

\* the Gemini call returned: (summarize: set_to_cache, which fails silently
\* when the cache is down), COMPLETED, commit
ComputeOk(w, cacheUp) ==
    /\ worker[w].pc = "compute"
    /\ LET j == worker[w].job
       IN  /\ jobs' = MarkCompleted(j, "fresh")
           /\ cache' = IF jobs[j].type = "summarize" /\ cacheUp
                       THEN cache \cup {jobs[j].text}
                       ELSE cache
    /\ worker' = [worker EXCEPT ![w].pc = "notify"]
    /\ UNCHANGED <<credit, initial, txns, item, client, webhook, deliveries,
                   requests, delivery, limiter, reply>>

\* the Gemini call raised
ComputeFail(w) ==
    /\ worker[w].pc = "compute"
    /\ worker' = [worker EXCEPT ![w].pc = "failed"]
    /\ UNCHANGED <<credit, initial, txns, jobs, item, client, cache, webhook,
                   deliveries, requests, delivery, limiter, reply>>

\* trigger_job_webhook after completion: spawns send_webhook when the
\* organisation has a webhook URL; the function then returns
Notify(w) ==
    /\ worker[w].pc = "notify"
    /\ LET j == worker[w].job
       IN  /\ deliveries' = IF webhook[jobs[j].org]
                            THEN [deliveries EXCEPT ![j] = @ + 1]
                            ELSE deliveries
    /\ worker' = [worker EXCEPT ![w].pc = "return"]
    /\ UNCHANGED <<credit, initial, txns, jobs, item, client, cache, webhook,
                   requests, delivery, limiter, reply>>

\* trigger_job_webhook raised inside the try block: the except branch runs
NotifyError(w) ==
    /\ worker[w].pc = "notify"
    /\ worker' = [worker EXCEPT ![w].pc = "failed"]
    /\ UNCHANGED <<credit, initial, txns, jobs, item, client, cache, webhook,
                   deliveries, requests, delivery, limiter, reply>>

\* process_summarize_job, lines 169-175: PENDING, commit, raise Retry(defer=5)
RetryCommit(w) ==
    /\ worker[w].pc = "failed"
    /\ jobs[worker[w].job].type = "summarize"
    /\ ~IsLastTry(worker[w].try)
    /\ jobs' = MarkRetry(worker[w].job)
    /\ worker' = [worker EXCEPT ![w] = IdleWorker]
    /\ UNCHANGED <<credit, initial, txns, item, client, cache, webhook,
                   deliveries, requests, delivery, limiter, reply>>

\* process_summarize_job, lines 138-152: last try, SELECT the credit record
RefundSelect(w) ==
    /\ worker[w].pc = "failed"
    /\ jobs[worker[w].job].type = "summarize"
    /\ IsLastTry(worker[w].try)
    /\ worker' = [worker EXCEPT ![w].pc = "refund",
                     ![w].snap = get_balance(jobs[worker[w].job].org)]
    /\ UNCHANGED <<credit, initial, txns, jobs, item, client, cache, webhook,
                   deliveries, requests, delivery, limiter, reply>>

\* process_summarize_job, lines 139-168: one commit stores FAILED, the
\* balance computed from the snapshot and the REFUND row; then re-raise
FailCommit(w) ==
    /\ worker[w].pc = "refund"
    /\ LET j == worker[w].job
           o == jobs[j].org
       IN  /\ jobs' = MarkFailed(j)
           /\ IF credit[o].exists /\ RefundRows(j) # <<>>
              THEN /\ credit' = [credit EXCEPT ![o].balance =
                                    worker[w].snap + jobs[j].credits]
                   /\ txns' = txns \o RefundRows(j)
              ELSE UNCHANGED <<credit, txns, delivery, limiter, reply>>
    /\ worker' = [worker EXCEPT ![w].pc = "return"]
    /\ UNCHANGED <<initial, item, client, cache, webhook, deliveries, requests,
                   delivery, limiter, reply>>

\* process_analyze_job, lines 234-239: PENDING, commit, return a dict (no
\* Retry is raised, so ARQ takes the run as finished)
AnalyzeFailPending(w) ==
    /\ worker[w].pc = "failed"
    /\ jobs[worker[w].job].type = "analyze"
    /\ ~AnalyzeExhausted(worker[w].attempt)
    /\ jobs' = MarkRetry(worker[w].job)
    /\ worker' = [worker EXCEPT ![w].pc = "return"]
    /\ UNCHANGED <<credit, initial, txns, item, client, cache, webhook,
                   deliveries, requests, delivery, limiter, reply>>

\* process_analyze_job, lines 223-239: FAILED, trigger_job_webhook, commit
AnalyzeFailFinal(w) ==
    /\ worker[w].pc = "failed"
    /\ jobs[worker[w].job].type = "analyze"
    /\ AnalyzeExhausted(worker[w].attempt)
    /\ LET j == worker[w].job
       IN  /\ jobs' = MarkFailed(j)
           /\ deliveries' = IF webhook[jobs[j].org]
                            THEN [deliveries EXCEPT ![j] = @ + 1]
                            ELSE deliveries
    /\ worker' = [worker EXCEPT ![w].pc = "return"]
    /\ UNCHANGED <<credit, initial, txns, item, client, cache, webhook, requests,
                   delivery, limiter, reply>>

\* process_analyze_job, line 229: trigger_job_webhook raised inside the
\* except branch; the exception leaves the function before the commit
AnalyzeFailNotifyError(w) ==
    /\ worker[w].pc = "failed"
    /\ jobs[worker[w].job].type = "analyze"
    /\ AnalyzeExhausted(worker[w].attempt)
    /\ item' = Ack(worker[w].job)
    /\ worker' = [worker EXCEPT ![w] = IdleWorker]
    /\ UNCHANGED <<credit, initial, txns, jobs, client, cache, webhook,
                   deliveries, requests, delivery, limiter, reply>>

\* the function returned or raised something other than Retry: ARQ stores the
\* result and removes the item
Return(w) ==
    /\ worker[w].pc = "return"
    /\ item' = Ack(worker[w].job)
    /\ worker' = [worker EXCEPT ![w] = IdleWorker]
    /\ UNCHANGED <<credit, initial, txns, jobs, client, cache, webhook,
                   deliveries, requests, delivery, limiter, reply>>

\* the worker process dies mid-run: nothing uncommitted survives, the item
\* was not acknowledged and stays in the queue
Crash(w) ==
    /\ worker[w].pc # "idle"
    /\ worker' = [worker EXCEPT ![w] = IdleWorker]
    /\ UNCHANGED <<credit, initial, txns, jobs, item, client, cache, webhook,
                   deliveries, requests, delivery, limiter, reply>>

\* job_timeout (300 s) runs out while the function waits: ARQ cancels the
\* coroutine (CancelledError is not an Exception, so the except branch does
\* not run and nothing more is committed) and records the run as failed with
\* TimeoutError, which is not retried: the item leaves the queue
Timeout(w) ==
    /\ worker[w].pc \in {"read", "lookup", "compute", "notify", "failed", "refund"}
    /\ item' = Ack(worker[w].job)
    /\ worker' = [worker EXCEPT ![w] = IdleWorker]
    /\ UNCHANGED <<credit, initial, txns, jobs, client, cache, webhook,
                   deliveries, requests, delivery, limiter, reply>>

\* ARQ: job_try > max_tries, the run is refused and the item is dropped
AbortExhausted(j) ==
    /\ j \in 1..Len(jobs)
    /\ item[j].state = "queued"
    /\ item[j].tries >= max_tries
    /\ item' = Ack(j)
    /\ UNCHANGED <<credit, initial, txns, jobs, client, worker, cache, webhook,
                   deliveries, requests, delivery, limiter, reply>>

\* the cached summary reaches its TTL (setex ... 3600)
CacheExpire(x) ==
    /\ x \in cache
    /\ cache' = cache \ {x}
    /\ UNCHANGED <<credit, initial, txns, jobs, item, client, worker, webhook,
                   deliveries, requests, delivery, limiter, reply>>

\* set_webhook: organisations.webhook_url := url
SetWebhook(o) ==
    /\ ~webhook[o]
    /\ webhook' = [webhook EXCEPT ![o] = TRUE]
    /\ UNCHANGED <<credit, initial, txns, jobs, item, client, worker, cache,
                   deliveries, requests, delivery, limiter, reply>>

\* delete_webhook: organisations.webhook_url := None
DeleteWebhook(o) ==
    /\ webhook[o]
    /\ webhook' = [webhook EXCEPT ![o] = FALSE]
    /\ UNCHANGED <<credit, initial, txns, jobs, item, client, worker, cache,
                   deliveries, requests, delivery, limiter, reply>>

\* ------------------------------------------------ job service, called directly
\* JobService.create_job: inserts the PENDING row and commits
CallCreate(c, o, t, x) ==
    /\ FreeClient(c)
    /\ requests < MaxServiceCalls
    /\ Len(jobs) < MaxJobs
    /\ requests' = requests + 1
    /\ jobs' = Append(jobs, NewJob(o, t, x, Cost(t)))
    /\ client' = [client EXCEPT ![c] = Finish(c, "created")]
    /\ UNCHANGED <<credit, initial, txns, item, worker, cache, webhook,
                   deliveries, delivery, limiter, reply>>

\* a call of claim_job, complete_job or fail_job for job id j
CallJobService(c, op, j) ==
    /\ FreeClient(c)
    /\ requests < MaxServiceCalls
    /\ requests' = requests + 1
    /\ client' = [client EXCEPT ![c] = [IdleClient EXCEPT !.pc = "job_read",
                     !.op = op, !.job = j]]
    /\ UNCHANGED <<credit, initial, txns, jobs, item, worker, cache, webhook,
                   deliveries, delivery, limiter, reply>>

\* mutant: only a finished job is refused, a RUNNING one is claimed again
MutNotClaimableWhenFinished(j) ==
    j \notin 1..Len(jobs) \/ jobs[j].status \in {"COMPLETED", "FAILED"}

\* claim_job: "if not job or job.status != JobStatus.PENDING: return None"
NotClaimable(j) == j \notin 1..Len(jobs) \/ jobs[j].status # "PENDING"

\* get_job_by_id and the test that follows it: claim_job returns None for a
\* missing or non-PENDING job, complete_job and fail_job for a missing one
JobServiceRead(c) ==
    /\ client[c].pc = "job_read"
    /\ LET j == client[c].job
       IN  client' = [client EXCEPT ![c] =
               IF client[c].op = "claim" /\ NotClaimable(j)
               THEN Finish(c, "not_claimed")
               ELSE IF j \notin 1..Len(jobs)
               THEN Finish(c, "not_found")
               ELSE [client[c] EXCEPT !.pc = "job_commit",
                                      !.snap = jobs[j].attempt_count]]
    /\ UNCHANGED <<credit, initial, txns, jobs, item, worker, cache, webhook,
                   deliveries, requests, delivery, limiter, reply>>

\* the assignments and the commit of claim_job (RUNNING, started_at,
\* attempt_count += 1), complete_job (COMPLETED, output, completed_at) and
\* fail_job (FAILED, error, completed_at)
JobServiceCommit(c) ==
    /\ client[c].pc = "job_commit"
    /\ LET j == client[c].job
       IN  jobs' = IF client[c].op = "claim"
                   THEN MarkRunning(j, client[c].snap + 1)
                   ELSE IF client[c].op = "complete"
                   THEN MarkCompleted(j, "fresh")
                   ELSE MarkFailed(j)
    /\ client' = [client EXCEPT ![c] =
                    Finish(c, IF client[c].op = "claim" THEN "claimed" ELSE "ok")]
    /\ UNCHANGED <<credit, initial, txns, item, worker, cache, webhook,
                   deliveries, requests, delivery, limiter, reply>>

JobServiceOps == {"claim", "complete", "fail"}

\* --------------------------------------------------------- webhook delivery
\* webhook_service.py, lines 20-22
WEBHOOK_DELAYS == <<5, 25, 125>>
MAX_RETRIES == 3

\* no response (the POST raised), and a response_code of None
NoResponse == 0
Responses == {NoResponse, 200, 204, 500}

\* an organisation id with no row in organisations
NoOrg == "none"

\* the row send_webhook inserts (lines 57-65); next_retry_at is kept as the
\* delay it was computed from, 0 for None
MutNewDeliveryCounted(o) ==
    [org |-> o, status |-> "pending", attempts |-> 1,
     response_code |-> NoResponse, error_message |-> "", next_retry_at |-> 0]

NewDelivery(o) ==
    [org |-> o, status |-> "pending", attempts |-> 0,
     response_code |-> NoResponse, error_message |-> "", next_retry_at |-> 0]

\* rows: webhook_deliveries in insertion order; the remaining fields belong to
\* the send_webhook task of the latest trigger: its position, its loop
\* variable, the delay it slept last, and the POSTs it has made, each with the
\* delay slept before it and the response received
IdleDelivery ==
    [pc |-> "idle", org |-> NoOrg, attempt |-> 0, slept |-> 0, posts |-> <<>>,
     rows |-> <<>>, triggers |-> 0, outcome |-> "none"]

TriggerReady ==
    /\ delivery.pc \in {"idle", "done", "lost"}
    /\ delivery.triggers < MaxTriggers

Triggered(o, pc, outcome) ==
    [delivery EXCEPT !.pc = pc, !.org = o, !.attempt = 0, !.slept = 0,
                     !.posts = <<>>, !.triggers = @ + 1, !.outcome = outcome]

\* trigger_job_webhook, lines 124-126: no organisation row, or no webhook_url
TriggerSkip(o) ==
    /\ TriggerReady
    /\ IF o \in Orgs THEN ~webhook[o] ELSE TRUE
    /\ delivery' = Triggered(o, "idle", "skipped")
    /\ UNCHANGED <<credit, initial, txns, jobs, item, client, worker, cache,
                   webhook, deliveries, requests, limiter, reply>>

\* trigger_job_webhook, lines 129-137: create_task(send_webhook(...))
TriggerSpawn(o) ==
    /\ TriggerReady
    /\ o \in Orgs /\ webhook[o]
    /\ delivery' = Triggered(o, "spawned", "spawned")
    /\ UNCHANGED <<credit, initial, txns, jobs, item, client, worker, cache,
                   webhook, deliveries, requests, limiter, reply>>

\* trigger_job_webhook, line 124: the row was found and reading
\* org.webhook_url raises (the Organisation model declares no such attribute)
TriggerError(o) ==
    /\ TriggerReady
    /\ o \in Orgs
    /\ delivery' = Triggered(o, "idle", "raised")
    /\ UNCHANGED <<credit, initial, txns, jobs, item, client, worker, cache,
                   webhook, deliveries, requests, limiter, reply>>

CurrentRow == Len(delivery.rows)

\* send_webhook, lines 55-65: the row is added and committed
HookInsert ==
    /\ delivery.pc = "spawned"
    /\ delivery' = [delivery EXCEPT
                      !.rows = Append(@, NewDelivery(delivery.org)),
                      !.pc = "loop"]
    /\ UNCHANGED <<credit, initial, txns, jobs, item, client, worker, cache,
                   webhook, deliveries, requests, limiter, reply>>

\* send_webhook, lines 70-72: attempts = attempt + 1, commit
HookAttempt ==
    /\ delivery.pc = "loop"
    /\ delivery' = [delivery EXCEPT
                      !.rows[CurrentRow].attempts = delivery.attempt + 1,
                      !.pc = "post"]
    /\ UNCHANGED <<credit, initial, txns, jobs, item, client, worker, cache,
                   webhook, deliveries, requests, limiter, reply>>

\* line 84
MutIs2xxOnly200(code) == code = 200

Is2xx(code) == code >= 200 /\ code < 300

\* line 97
MoreAttempts(attempt) == attempt < MAX_RETRIES - 1

\* lines 82-93: what an attempt that did not deliver leaves in the row
Recorded(row, r) ==
    IF r = NoResponse
    THEN [row EXCEPT !.error_message = "exception"]
    ELSE [row EXCEPT !.response_code = r, !.error_message = "HTTP"]

\* lines 82-107: the row as the commit after the POST stores it
AfterPost(row, attempt, r) ==
    IF Is2xx(r)
    THEN [row EXCEPT !.response_code = r, !.status = "delivered"]
    ELSE IF MoreAttempts(attempt)
    THEN [Recorded(row, r) EXCEPT
             !.next_retry_at = WEBHOOK_DELAYS[attempt + 1],
             !.status = "pending"]
    ELSE [Recorded(row, r) EXCEPT !.status = "failed"]

\* send_webhook, lines 74-107: the POST answered r (or raised), and the
\* outcome is committed
HookPost(r) ==
    /\ delivery.pc = "post"
    /\ delivery' = [delivery EXCEPT
          !.posts = Append(@, [after |-> delivery.slept, response |-> r]),
          !.rows[CurrentRow] = AfterPost(@, delivery.attempt, r),
          !.pc = IF ~Is2xx(r) /\ MoreAttempts(delivery.attempt)
                 THEN "sleep" ELSE "done"]
    /\ UNCHANGED <<credit, initial, txns, jobs, item, client, worker, cache,
                   webhook, deliveries, requests, limiter, reply>>

\* send_webhook, line 104, and the next turn of the loop: the task slept
\* WEBHOOK_DELAYS[attempt] (Python indexes from 0)
HookSleep ==
    /\ delivery.pc = "sleep"
    /\ delivery' = [delivery EXCEPT
                      !.slept = WEBHOOK_DELAYS[delivery.attempt + 1],
                      !.attempt = @ + 1,
                      !.pc = "loop"]
    /\ UNCHANGED <<credit, initial, txns, jobs, item, client, worker, cache,
                   webhook, deliveries, requests, limiter, reply>>

\* the process running the task exits: the task is gone, its row stays
HookLost ==
    /\ delivery.pc \in {"spawned", "loop", "post", "sleep"}
    /\ delivery' = [delivery EXCEPT !.pc = "lost"]
    /\ UNCHANGED <<credit, initial, txns, jobs, item, client, worker, cache,
                   webhook, deliveries, requests, limiter, reply>>

\* ------------------------------------------------------------- rate limiter
\* the clock is read in ticks of 1/TicksPerSecond second; a sorted set holds
\* one member per admitted clock reading (the member is str(now), the score
\* now), so two admissions at one reading share a member
WindowTicks == window * TicksPerSecond

\* request handlers that may be inside is_allowed at the same time
Callers == {"k1", "k2"}

IdleCall == [pc |-> "idle", org |-> NoOrg, at |-> 0]

IdleLimiter ==
    [now |-> 0, zset |-> [o \in Orgs |-> {}], log |-> <<>>,
     calls |-> [k \in Callers |-> IdleCall]]

\* time.time() moves on
Tick ==
    /\ limiter.now < MaxTime
    /\ limiter' = [limiter EXCEPT !.now = @ + 1]
    /\ UNCHANGED <<credit, initial, txns, jobs, item, client, worker, cache,
                   webhook, deliveries, requests, delivery, reply>>

\* zremrangebyscore(key, 0, now - window): what remains (line 38)
Pruned(o) == {t \in limiter.zset[o] : t > limiter.now - WindowTicks}

Oldest(set) == CHOOSE t \in set : \A u \in set : t <= u

\* int(): truncation of a number of ticks to whole seconds
IntSeconds(ticks) ==
    IF ticks >= 0 THEN ticks \div TicksPerSecond
    ELSE 0 - ((0 - ticks) \div TicksPerSecond)

\* line 52
MutAtLeastOneDropped(r) == r

AtLeastOne(r) == IF r > 1 THEN r ELSE 1

\* lines 47-52
RetryAfter(o) ==
    AtLeastOne(IF Pruned(o) # {}
               THEN IntSeconds(WindowTicks - (limiter.now - Oldest(Pruned(o))))
               ELSE window)

\* lines 60-63: the answer when a Redis operation raised
MutFailClosed == [allowed |-> FALSE, retry_after |-> 1]

FailOpen == [allowed |-> TRUE, retry_after |-> 0]

Failures == {"none", "pipeline", "zrange", "zadd", "expire"}

\* the answer of is_allowed when the Redis operation named by fail raises
Answer(o, fail) ==
    IF fail # "none" THEN FailOpen
    ELSE IF Cardinality(Pruned(o)) >= limit
    THEN [allowed |-> FALSE, retry_after |-> RetryAfter(o)]
    ELSE [allowed |-> TRUE, retry_after |-> 0]

\* mutant: the timestamp is added whatever the answer
MutStoredAlways(o, fail) == Pruned(o) \cup {limiter.now}

\* the sorted set after is_allowed: nothing is done when the pipeline raises;
\* the member is added unless the limit is reached or zadd raises
Stored(o, fail) ==
    IF fail = "pipeline" THEN limiter.zset[o]
    ELSE IF Cardinality(Pruned(o)) >= limit \/ fail = "zadd" THEN Pruned(o)
    ELSE Pruned(o) \cup {limiter.now}

\* mutant: one key for every organisation instead of ratelimit:{org_id}
MutIsAllowedSharedKey(o, fail) ==
    /\ Len(limiter.log) < MaxChecks
    /\ LET a == Answer(o, fail)
       IN  limiter' = [limiter EXCEPT
              !.zset = [x \in Orgs |-> Stored(o, fail)],
              !.log = Append(@, [org |-> o, at |-> limiter.now, fail |-> fail,
                                 allowed |-> a.allowed,
                                 retry_after |-> a.retry_after,
                                 status |-> IF a.allowed THEN 200 ELSE 429])]
    /\ UNCHANGED <<credit, initial, txns, jobs, item, client, worker, cache,
                   webhook, deliveries, requests, delivery, reply>>

\* check_rate_limit -> RateLimiter.is_allowed, one caller at a time
IsAllowed(o, fail) ==
    /\ Len(limiter.log) < MaxChecks
    /\ Cardinality(Pruned(o)) >= limit => fail \in {"none", "pipeline", "zrange"}
    /\ Cardinality(Pruned(o)) < limit =>
           fail \in {"none", "pipeline", "zadd", "expire"}
    /\ LET a == Answer(o, fail)
       IN  limiter' = [limiter EXCEPT
              !.zset[o] = Stored(o, fail),
              !.log = Append(@, [org |-> o, at |-> limiter.now, fail |-> fail,
                                 allowed |-> a.allowed,
                                 retry_after |-> a.retry_after,
                                 status |-> IF a.allowed THEN 200 ELSE 429])]
    /\ UNCHANGED <<credit, initial, txns, jobs, item, client, worker, cache,
                   webhook, deliveries, requests, delivery, reply>>

\* is_allowed under concurrent callers, Redis reachable: the pipeline (prune
\* and count) and the zadd are separate round trips, and other callers run
\* between them
InFlight == {k \in Callers : limiter.calls[k].pc # "idle"}

Logged(o, at, a) ==
    [org |-> o, at |-> at, fail |-> "none", allowed |-> a.allowed,
     retry_after |-> a.retry_after, status |-> IF a.allowed THEN 200 ELSE 429]

\* lines 30-52: now is read, the pipeline runs, and a request at the limit is
\* denied
CheckCount(k, o) ==
    /\ limiter.calls[k].pc = "idle"
    /\ Len(limiter.log) + Cardinality(InFlight) < MaxChecks
    /\ limiter' =
          IF Cardinality(Pruned(o)) >= limit
          THEN [limiter EXCEPT
                  !.zset[o] = Pruned(o),
                  !.log = Append(@, Logged(o, limiter.now, Answer(o, "none")))]
          ELSE [limiter EXCEPT
                  !.zset[o] = Pruned(o),
                  !.calls[k] = [pc |-> "add", org |-> o, at |-> limiter.now]]
    /\ UNCHANGED <<credit, initial, txns, jobs, item, client, worker, cache,
                   webhook, deliveries, requests, delivery, reply>>

\* lines 54-58: zadd(key, {str(now): now}), expire, return (True, 0)
CheckAdd(k) ==
    /\ limiter.calls[k].pc = "add"
    /\ LET o == limiter.calls[k].org
           at == limiter.calls[k].at
       IN  limiter' = [limiter EXCEPT
              !.zset[o] = @ \cup {at},
              !.calls[k] = IdleCall,
              !.log = Append(@, Logged(o, at, [allowed |-> TRUE,
                                               retry_after |-> 0]))]
    /\ UNCHANGED <<credit, initial, txns, jobs, item, client, worker, cache,
                   webhook, deliveries, requests, delivery, reply>>

\* create_job_v2 from its first line: check_rate_limit (line 104) answers
\* 429 before anything else is done, or lets the request go on to the
\* balance check
RateLimitedSubmit(c, o, t, x) ==
    /\ FreeClient(c)
    /\ requests < MaxJobs
    /\ Len(limiter.log) < MaxChecks
    /\ requests' = requests + 1
    /\ limiter' = [limiter EXCEPT
          !.zset[o] = Stored(o, "none"),
          !.log = Append(@, Logged(o, limiter.now, Answer(o, "none")))]
    /\ client' = [client EXCEPT ![c] =
          IF Answer(o, "none").allowed
          THEN [IdleClient EXCEPT !.pc = "check", !.op = "submit", !.org = o,
                                  !.type = t, !.text = x, !.amount = Cost(t)]
          ELSE Finish(c, "rate_limited")]
    /\ UNCHANGED <<credit, initial, txns, jobs, item, worker, cache, webhook,
                   deliveries, delivery, reply>>

\* -------------------------------------------------------------- job queries
\* JobService.get_job_by_id_and_org: the row with this id and this org_id
MutGetJobAnyOrg(j, o) == IF j \in 1..Len(jobs) THEN j ELSE NoJob

get_job_by_id_and_org(j, o) ==
    IF j \in 1..Len(jobs) /\ jobs[j].org = o THEN j ELSE NoJob

RECURSIVE JobsByOrgFrom(_, _)
\* the ids up to n of the rows with org_id = o, newest first
JobsByOrgFrom(o, n) ==
    IF n = 0 THEN <<>>
    ELSE IF jobs[n].org = o THEN <<n>> \o JobsByOrgFrom(o, n - 1)
    ELSE JobsByOrgFrom(o, n - 1)

\* JobService.get_jobs_by_org: ... WHERE org_id = o ORDER BY created_at DESC
get_jobs_by_org(o) == JobsByOrgFrom(o, Len(jobs))

NoReply ==
    [op |-> "none", org |-> NoOrg, job |-> NoJob, status |-> 0,
     found |-> NoJob, list |-> <<>>]

\* GET /jobs/{job_id} by a user of organisation o: 404 when no row is found
GetJob(o, j) ==
    /\ reply' = [op |-> "get", org |-> o, job |-> j,
                 status |-> IF get_job_by_id_and_org(j, o) = NoJob
                            THEN 404 ELSE 200,
                 found |-> get_job_by_id_and_org(j, o), list |-> <<>>]
    /\ UNCHANGED <<credit, initial, txns, jobs, item, client, worker, cache,
                   webhook, deliveries, requests, delivery, limiter>>

\* GET /jobs/ by a user of organisation o
ListJobs(o) ==
    /\ reply' = [op |-> "list", org |-> o, job |-> NoJob, status |-> 200,
                 found |-> NoJob, list |-> get_jobs_by_org(o)]
    /\ UNCHANGED <<credit, initial, txns, jobs, item, client, worker, cache,
                   webhook, deliveries, requests, delivery, limiter>>

\* ------------------------------------------------------------------- init
InitCommon ==
    /\ credit = [o \in Orgs |-> [exists |-> FALSE, balance |-> 0]]
    /\ initial = [o \in Orgs |-> 0]
    /\ txns = <<>>
    /\ jobs = <<>>
    /\ item = [j \in JobIds |-> [state |-> "none", tries |-> 0]]
    /\ client = [c \in Clients |-> IdleClient]
    /\ worker = [w \in Workers |-> IdleWorker]
    /\ cache = {}
    /\ deliveries = [j \in JobIds |-> 0]
    /\ requests = 0
    /\ delivery = IdleDelivery
    /\ limiter = IdleLimiter
    /\ reply = NoReply

InitLedger ==
    /\ InitCommon
    /\ webhook = [o \in Orgs |-> FALSE]

\* the ledger under concurrent requests: submissions and direct calls
NextLedger ==
    \/ \E o \in Orgs, b \in InitialBalances : CreateCredit(o, b)
    \/ \E c \in Clients, o \in Orgs, a \in Amounts : CallDeduct(c, o, a)
    \/ \E c \in Clients, o \in Orgs, a \in Amounts : CallRefund(c, o, a)
    \/ \E c \in Clients : DeductRead(c)
    \/ \E c \in Clients : DeductCommit(c)
    \/ \E c \in Clients : RefundRead(c)
    \/ \E c \in Clients : RefundCommit(c)
    \/ \E c \in Clients, o \in Orgs, t \in JobTypes, x \in Texts :
           SubmitStart(c, o, t, x)
    \/ \E c \in Clients : SubmitCheck(c)
    \/ \E c \in Clients, up \in BOOLEAN : CreateJob(c, up)

SpecLedger == InitLedger /\ [][NextLedger]_vars

\* the submission routes alone, for organisations that have signed up: up to
\* MaxJobs requests, no worker
InitSubmit ==
    /\ \E b \in InitialBalances :
          /\ credit = [o \in Orgs |-> IF o \in SignupOrgs
                                      THEN [exists |-> TRUE, balance |-> b]
                                      ELSE [exists |-> FALSE, balance |-> 0]]
          /\ initial = [o \in Orgs |-> IF o \in SignupOrgs THEN b ELSE 0]
    /\ txns = <<>>
    /\ jobs = <<>>
    /\ item = [j \in JobIds |-> [state |-> "none", tries |-> 0]]
    /\ client = [c \in Clients |-> IdleClient]
    /\ worker = [w \in Workers |-> IdleWorker]
    /\ cache = {}
    /\ webhook = [o \in Orgs |-> FALSE]
    /\ deliveries = [j \in JobIds |-> 0]
    /\ requests = 0
    /\ delivery = IdleDelivery
    /\ limiter = IdleLimiter
    /\ reply = NoReply

NextSubmit ==
    \/ \E c \in Clients, o \in Orgs, t \in JobTypes, x \in Texts :
           StartSubmission(c, o, t, x, MaxJobs)
    \/ \E c \in Clients : SubmitCheck(c)
    \/ \E c \in Clients : DeductRead(c)
    \/ \E c \in Clients : DeductCommit(c)
    \/ \E c \in Clients, up \in BOOLEAN : CreateJob(c, up)

SpecSubmit == InitSubmit /\ [][NextSubmit]_vars

\* the job service under concurrent direct callers
NextJobs ==
    \/ \E c \in Clients, o \in Orgs, t \in JobTypes, x \in Texts :
           CallCreate(c, o, t, x)
    \/ \E c \in Clients, op \in JobServiceOps, j \in JobIds :
           CallJobService(c, op, j)
    \/ \E c \in Clients : JobServiceRead(c)
    \/ \E c \in Clients : JobServiceCommit(c)

SpecJobs == InitLedger /\ [][NextJobs]_vars

\* the whole pipeline: sign-up, submissions, the queue and the workers
Init ==
    /\ InitCommon
    /\ webhook = [o \in Orgs |-> FALSE]

Next ==
    \/ \E o \in SignupOrgs, b \in InitialBalances : CreateCredit(o, b)
    \/ \E c \in Clients, o \in Orgs, t \in JobTypes, x \in Texts :
           SubmitStart(c, o, t, x)
    \/ \E c \in Clients : SubmitCheck(c)
    \/ \E c \in Clients : DeductRead(c)
    \/ \E c \in Clients : DeductCommit(c)
    \/ \E c \in Clients, up \in BOOLEAN : CreateJob(c, up)
    \/ \E w \in Workers, j \in JobIds : JobRead(w, j)
    \/ \E w \in Workers : ClaimCommit(w)
    \/ \E w \in Workers : CacheHit(w)
    \/ \E w \in Workers, up \in BOOLEAN : CacheMiss(w, up)
    \/ \E w \in Workers, up \in BOOLEAN : ComputeOk(w, up)
    \/ \E w \in Workers : ComputeFail(w)
    \/ \E w \in Workers : Notify(w)
    \/ \E w \in Workers : NotifyError(w)
    \/ \E w \in Workers : RetryCommit(w)
    \/ \E w \in Workers : RefundSelect(w)
    \/ \E w \in Workers : FailCommit(w)
    \/ \E w \in Workers : AnalyzeFailPending(w)
    \/ \E w \in Workers : AnalyzeFailFinal(w)
    \/ \E w \in Workers : AnalyzeFailNotifyError(w)
    \/ \E w \in Workers : Return(w)
    \/ \E w \in Workers : Crash(w)
    \/ \E w \in Workers : Timeout(w)
    \/ \E j \in JobIds : AbortExhausted(j)
    \/ \E x \in Texts : CacheExpire(x)
    \/ \E o \in SignupOrgs : SetWebhook(o)
    \/ \E o \in SignupOrgs : DeleteWebhook(o)

Spec == Init /\ [][Next]_vars

\* normal operation: one worker that never dies and a queue that hands out
\* an item only when no run of it is in progress; a run that was started is
\* carried through, and a queued item is eventually delivered.  The FAILED
\* branch of process_analyze_job is left out: an ANALYZE run returns normally
\* after a failure, the item is not delivered again, and attempt_count
\* cannot reach 3 here.
SerialWorker == WorkerOrder[1]

WorkerStep(w) ==
    \/ \E j \in JobIds : JobRead(w, j)
    \/ ClaimCommit(w)
    \/ CacheHit(w)
    \/ \E up \in BOOLEAN : CacheMiss(w, up)
    \/ \E up \in BOOLEAN : ComputeOk(w, up)
    \/ ComputeFail(w)
    \/ Notify(w)
    \/ NotifyError(w)
    \/ RetryCommit(w)
    \/ RefundSelect(w)
    \/ FailCommit(w)
    \/ AnalyzeFailPending(w)
    \/ Return(w)

NextSerial ==
    \/ \E o \in SignupOrgs, b \in InitialBalances : CreateCredit(o, b)
    \/ \E c \in Clients, o \in Orgs, t \in JobTypes, x \in Texts :
           SubmitStart(c, o, t, x)
    \/ \E c \in Clients : SubmitCheck(c)
    \/ \E c \in Clients : DeductRead(c)
    \/ \E c \in Clients : DeductCommit(c)
    \/ \E c \in Clients, up \in BOOLEAN : CreateJob(c, up)
    \/ WorkerStep(SerialWorker)
    \/ \E x \in Texts : CacheExpire(x)
    \/ \E o \in SignupOrgs : SetWebhook(o)
    \/ \E o \in SignupOrgs : DeleteWebhook(o)

SpecSerial == Init /\ [][NextSerial]_vars /\ WF_vars(WorkerStep(SerialWorker))

\* normal operation in which a run may also exceed job_timeout
SpecTimeout ==
    /\ Init
    /\ [][NextSerial \/ Timeout(SerialWorker)]_vars
    /\ WF_vars(WorkerStep(SerialWorker))

\* webhook notification alone: the configuration routes, trigger_job_webhook
\* for any organisation id, and the send_webhook task it spawns
NextWebhook ==
    \/ \E o \in Orgs : SetWebhook(o)
    \/ \E o \in Orgs : DeleteWebhook(o)
    \/ \E o \in Orgs \cup {NoOrg} : TriggerSkip(o)
    \/ \E o \in Orgs : TriggerSpawn(o)
    \/ \E o \in Orgs : TriggerError(o)
    \/ HookInsert
    \/ HookAttempt
    \/ \E r \in Responses : HookPost(r)
    \/ HookSleep
    \/ HookLost

SpecWebhook == Init /\ [][NextWebhook]_vars

\* the rate limiter alone, called by one caller at a time
NextLimiter ==
    \/ Tick
    \/ \E o \in Orgs, fail \in Failures : IsAllowed(o, fail)

SpecLimiter == Init /\ [][NextLimiter]_vars

\* the result cache: up to MaxCacheJobs submissions worked off by one worker
\* while Redis is reachable and no cached summary reaches its TTL
NextCache ==
    \/ \E o \in SignupOrgs, b \in InitialBalances : CreateCredit(o, b)
    \/ \E c \in Clients, o \in Orgs, t \in JobTypes, x \in Texts :
           StartSubmission(c, o, t, x, MaxCacheJobs)
    \/ \E c \in Clients : SubmitCheck(c)
    \/ \E c \in Clients : DeductRead(c)
    \/ \E c \in Clients : DeductCommit(c)
    \/ \E c \in Clients : CreateJob(c, TRUE)
    \/ \E j \in JobIds : JobRead(SerialWorker, j)
    \/ ClaimCommit(SerialWorker)
    \/ CacheHit(SerialWorker)
    \/ CacheMiss(SerialWorker, TRUE)
    \/ ComputeOk(SerialWorker, TRUE)
    \/ ComputeFail(SerialWorker)
    \/ Notify(SerialWorker)
    \/ NotifyError(SerialWorker)
    \/ RetryCommit(SerialWorker)
    \/ RefundSelect(SerialWorker)
    \/ FailCommit(SerialWorker)
    \/ AnalyzeFailPending(SerialWorker)
    \/ Return(SerialWorker)

SpecCache == Init /\ [][NextCache]_vars

\* job queries by the users of every organisation, while jobs are created
NextQueries ==
    \/ \E c \in Clients, o \in Orgs, t \in JobTypes, x \in Texts :
           CallCreate(c, o, t, x)
    \/ \E o \in Orgs, j \in JobIds : GetJob(o, j)
    \/ \E o \in Orgs : ListJobs(o)

SpecQueries == Init /\ [][NextQueries]_vars

\* the rate limiter under concurrent callers
NextLimiterRace ==
    \/ Tick
    \/ \E k \in Callers, o \in Orgs : CheckCount(k, o)
    \/ \E k \in Callers : CheckAdd(k)

SpecLimiterRace == Init /\ [][NextLimiterRace]_vars

\* submissions that pass through the rate limiter, by organisations that
\* have signed up; no worker
NextAdmission ==
    \/ Tick
    \/ \E c \in Clients, o \in SignupOrgs, t \in JobTypes :
           RateLimitedSubmit(c, o, t, "a")
    \/ \E c \in Clients : SubmitCheck(c)
    \/ \E c \in Clients : DeductRead(c)
    \/ \E c \in Clients : DeductCommit(c)
    \/ \E c \in Clients : CreateJob(c, TRUE)

SpecAdmission == InitSubmit /\ [][NextAdmission]_vars

\* the ledger and the rate limiter used by every organisation at once:
\* direct calls of deduct_credits and refund_credits under concurrent
\* requests, and is_allowed while Redis is reachable; MaxTenantOps calls in
\* all
MoreTenantOps == requests + Len(limiter.log) < MaxTenantOps

NextTenants ==
    \/ \E o \in Orgs, b \in InitialBalances : CreateCredit(o, b)
    \/ \E c \in Clients, o \in Orgs, a \in Amounts :
           MoreTenantOps /\ CallDeduct(c, o, a)
    \/ \E c \in Clients, o \in Orgs, a \in Amounts :
           MoreTenantOps /\ CallRefund(c, o, a)
    \/ \E c \in Clients : DeductRead(c)
    \/ \E c \in Clients : DeductCommit(c)
    \/ \E c \in Clients : RefundRead(c)
    \/ \E c \in Clients : RefundCommit(c)
    \/ Tick
    \/ \E o \in Orgs : MoreTenantOps /\ IsAllowed(o, "none")

SpecTenants == Init /\ [][NextTenants]_vars

\* ================================================================ claims
Signed(t) == IF t.kind = "REFUND" THEN t.amount ELSE 0 - t.amount

RECURSIVE SumSigned(_, _)
SumSigned(rows, o) ==
    IF rows = <<>> THEN 0
    ELSE (IF Head(rows).org = o THEN Signed(Head(rows)) ELSE 0)
         + SumSigned(Tail(rows), o)

Refunds(j) ==
    Cardinality({i \in DOMAIN txns : txns[i].kind = "REFUND" /\ txns[i].job = j})

\* a worker that has marked its job RUNNING and is processing it
Claimed(w) == worker[w].pc \notin {"idle", "read"}

Terminal(st) == st \in {"COMPLETED", "FAILED"}

\* the rows a step appends to credit_transactions
NewRows == SubSeq(txns', Len(txns) + 1, Len(txns'))

\* C1: two workers handling the same work item never both claim the job: at
\* no time are two workers both processing the same job.
C1_SingleClaimer ==
    \A w1, w2 \in Workers :
        (w1 # w2 /\ Claimed(w1) /\ Claimed(w2)) => worker[w1].job # worker[w2].job

\* C2: a job whose status is COMPLETED or FAILED keeps that status in every
\* later step.
C2_TerminalIsFinal ==
    [][\A j \in 1..Len(jobs) :
          Terminal(jobs[j].status) => jobs'[j].status = jobs[j].status]_vars

\* C3: in every reachable state each job has at most one REFUND transaction.
C3_AtMostOneRefund == \A j \in 1..Len(jobs) : Refunds(j) <= 1

\* C3 witness: a job was refunded on its last try and the worker died before
\* the run was acknowledged, so the item is still queued for redelivery.
C3_Witness ==
    \E j \in 1..Len(jobs) :
        /\ Refunds(j) = 1
        /\ jobs[j].status = "FAILED"
        /\ item[j].state = "queued"
        /\ \A w \in Workers : worker[w].job # j

C5_BalanceIsLedgerSum ==
    \A o \in Orgs : credit[o].exists => credit[o].balance = SumSigned(txns, o)

\* C6: interleaved ledger operations are serialized: the balance reflects
\* every committed operation (initial balance plus the signed sum of the
\* rows), so the deductions that succeeded never exceed what was available.
C6_Serialized ==
    \A o \in Orgs :
        credit[o].exists =>
            /\ credit[o].balance = initial[o] + SumSigned(txns, o)
            /\ initial[o] + SumSigned(txns, o) >= 0

\* C7: every organisation's balance is >= 0 in every reachable state.
C7_BalanceNonNegative == \A o \in Orgs : credit[o].balance >= 0

\* C7 witness: two interleaved deductions were both committed although their
\* amounts together exceed what the account ever held.
C7_Witness ==
    \E o \in Orgs :
        /\ credit[o].exists
        /\ Len(txns) = 2
        /\ \A i \in 1..2 : txns[i].org = o /\ txns[i].kind = "DEDUCTION"
        /\ txns[1].amount + txns[2].amount > initial[o]

\* C8: a deduct_credits call that finds no account, or an amount greater than
\* the balance, returns failure in that step and leaves every balance and the
\* transaction log as they were.
C8_RefusedDeductChangesNothing ==
    [][\A c \in Clients :
          ( /\ client[c].pc = "deduct_read"
            /\ client'[c] # client[c]
            /\ \/ ~credit[client[c].org].exists
               \/ client[c].amount > credit[client[c].org].balance ) =>
              /\ client'[c].pc = "idle"
              /\ client'[c].res = "deduct_failed"
              /\ credit' = credit
              /\ txns' = txns]_vars

\* C8 witness: a deduction of more than the balance was refused on an
\* existing account, which still holds its initial balance and has no rows.
C8_Witness ==
    \E c \in Clients, o \in Orgs :
        /\ client[c].res = "deduct_failed"
        /\ credit[o].exists
        /\ credit[o].balance = initial[o]
        /\ txns = <<>>
        /\ requests = 1

\* the commit of deduct_credits is one step: the step in which a deduct call
\* stores the balance it read minus the amount is the step that inserts its
\* DEDUCTION row, a DEDUCTION row is inserted by no other step, and no step
\* changes an existing balance without inserting a row for that organisation
DeductCommitIsOneStep ==
    [][ /\ \A c \in Clients :
              (client[c].pc = "deduct_commit" /\ client'[c] # client[c]) =>
                  /\ credit'[client[c].org].balance =
                         client[c].snap - client[c].amount
                  /\ NewRows = <<Txn(client[c].org, client[c].amount,
                                     "DEDUCTION", NoJob)>>
        /\ \A i \in DOMAIN NewRows :
              NewRows[i].kind = "DEDUCTION" =>
                  \E c \in Clients :
                      /\ client[c].pc = "deduct_commit"
                      /\ client'[c] # client[c]
                      /\ client[c].org = NewRows[i].org
        /\ \A o \in Orgs :
              (credit[o].exists /\ credit'[o].balance # credit[o].balance) =>
                  \E i \in DOMAIN NewRows : NewRows[i].org = o ]_vars

\* C9: in every state the balance has been decremented by a deduction's
\* amount exactly when its DEDUCTION row exists: on an account that has no
\* REFUND row, what the balance lost since the account was opened is the
\* total of the account's DEDUCTION rows.
C9_DecrementIffRecord ==
    \A o \in Orgs :
        ( /\ credit[o].exists
          /\ \A i \in DOMAIN txns :
                txns[i].org = o => txns[i].kind = "DEDUCTION" ) =>
            initial[o] - credit[o].balance = 0 - SumSigned(txns, o)

\* no step can touch job j or its ledger rows any more: its item is not in
\* the queue and no worker holds it
Over(j) ==
    /\ item[j].state # "queued"
    /\ \A w \in Workers : worker[w].job # j
    /\ \A c \in Clients : client[c].pc = "idle"

\* C10: the deduction made for a submitted job resolves to exactly one of
\* "the job is COMPLETED and was not refunded" or "the job has exactly one
\* REFUND row and is not COMPLETED"; stated for the jobs whose processing is
\* over, which is where the resolution must have happened.
C10_DeductionResolved ==
    \A j \in 1..Len(jobs) :
        Over(j) =>
            \/ jobs[j].status = "COMPLETED" /\ Refunds(j) = 0
            \/ jobs[j].status # "COMPLETED" /\ Refunds(j) = 1

RECURSIVE CompletedCost(_, _)
\* the total cost of the first n jobs that belong to o and are COMPLETED
CompletedCost(o, n) ==
    IF n = 0 THEN 0
    ELSE (IF jobs[n].org = o /\ jobs[n].status = "COMPLETED"
          THEN Cost(jobs[n].type) ELSE 0) + CompletedCost(o, n - 1)

C12_UnpayableRejected ==
    [][\A c \in Clients :
          (client[c].pc = "check" /\ client'[c] # client[c]) =>
              IF get_balance(client[c].org) < client[c].amount
              THEN /\ client'[c].pc = "idle"
                   /\ client'[c].res = "insufficient"
                   /\ credit' = credit
                   /\ txns' = txns
                   /\ jobs' = jobs
                   /\ item' = item
              ELSE client'[c].pc = "deduct_read"]_vars

\* C12 witness: from balance 30 two SUMMARIZE jobs were accepted one after
\* the other (balance 10) and the third request, which cannot be paid, was
\* rejected: nothing but the two deductions and the two jobs exists.
C12_Witness ==
    /\ requests = 3
    /\ client["c1"].pc = "idle" /\ client["c1"].res = "insufficient"
    /\ client["c2"] = IdleClient
    /\ initial["o1"] = 30 /\ credit["o1"].balance = 10
    /\ Len(jobs) = 2 /\ Len(txns) = 2
    /\ \A j \in 1..2 : jobs[j].type = "summarize" /\ jobs[j].org = "o1"

\* the rows of the ledger that refund job j
RefundsOf(j) == {i \in DOMAIN txns : txns[i].kind = "REFUND" /\ txns[i].job = j}

\* job j is a SUMMARIZE job of cost 10 with an input that always fails,
\* submitted by an organisation that started with balance 100, and is queued
FailingJobQueued(j) ==
    /\ j \in 1..Len(jobs)
    /\ jobs[j].type = "summarize" /\ jobs[j].text = ""
    /\ initial[jobs[j].org] = 100
    /\ item[j].state = "queued"

\* job j went through three runs and is FAILED with attempt_count 3, and the
\* balance is back at 100 with one REFUND of 10 for the job
FailedAndRefunded(j) ==
    /\ item[j].tries = 3
    /\ jobs[j].status = "FAILED" /\ jobs[j].attempt_count = 3
    /\ credit[jobs[j].org].balance = 100
    /\ Cardinality(RefundsOf(j)) = 1
    /\ \A i \in RefundsOf(j) : txns[i].amount = 10 /\ txns[i].org = jobs[j].org

\* C13: in normal operation a queued SUMMARIZE job whose input always fails,
\* paid from a balance of 100 by an organisation that makes this one request
\* only, ends after exactly three runs FAILED with attempt_count 3 and the
\* balance back at 100 with exactly one REFUND of 10, and stays so (for as
\* long as no further request is made).
C13_FailurePathEndToEnd ==
    \A j \in JobIds :
        (requests = 1 /\ FailingJobQueued(j))
            ~> [](requests > 1 \/ (j \in 1..Len(jobs) /\ FailedAndRefunded(j)))

\* C13 witness: the failing job has been through its three runs, is FAILED
\* and refunded, and its item has left the queue.
C13_Witness ==
    \E j \in 1..Len(jobs) :
        /\ requests = 1
        /\ jobs[j].type = "summarize" /\ jobs[j].text = ""
        /\ initial[jobs[j].org] = 100
        /\ item[j].state = "done"
        /\ FailedAndRefunded(j)

\* no worker is running job j
Unheld(j) == \A w \in Workers : worker[w].job # j

\* C14: after a failed attempt with attempts remaining (attempt_count < 3)
\* the job is PENDING with the error recorded and its work item is in the
\* queue for a later attempt; a job is FAILED, with error and completed_at,
\* only when attempt_count has reached 3.
C14_FailedAttemptHandled ==
    \A j \in 1..Len(jobs) :
        /\ ( /\ jobs[j].status = "PENDING"
             /\ jobs[j].error
             /\ jobs[j].attempt_count < max_tries
             /\ Unheld(j) ) => item[j].state = "queued"
        /\ jobs[j].status = "FAILED" =>
               /\ jobs[j].attempt_count >= max_tries
               /\ jobs[j].error
               /\ jobs[j].completed

\* C15: every job whose work item was enqueued eventually reaches COMPLETED
\* or FAILED (workers keep running).
C15_EnqueuedJobTerminates ==
    \A j \in JobIds :
        (j \in 1..Len(jobs) /\ item[j].state = "queued")
            ~> (j \in 1..Len(jobs) /\ Terminal(jobs[j].status))

\* C16: in every reachable state each job's attempt_count is at most 3.
C16_AttemptsBounded ==
    \A j \in 1..Len(jobs) : jobs[j].attempt_count <= max_tries

\* C16 witness: an ANALYZE job, whose runs add 1 to attempt_count each, has
\* been delivered three times (redeliveries after worker deaths) and stands
\* at attempt_count 3.
C16_Witness ==
    \E j \in 1..Len(jobs) :
        /\ jobs[j].type = "analyze"
        /\ jobs[j].attempt_count = 3
        /\ item[j].tries = 3

\* C17: a claim_job call that finds no job, or a job that is not PENDING,
\* returns "not claimed" in that step and leaves every job row (status,
\* started_at, attempt_count) as it was.
C17_RefusedClaimChangesNothing ==
    [][\A c \in Clients :
          ( /\ client[c].pc = "job_read"
            /\ client[c].op = "claim"
            /\ client'[c] # client[c]
            /\ \/ client[c].job \notin 1..Len(jobs)
               \/ jobs[client[c].job].status # "PENDING" ) =>
              /\ client'[c].pc = "idle"
              /\ client'[c].res = "not_claimed"
              /\ jobs' = jobs]_vars

\* C17 witness: a job was created and claimed, and a second claim of it was
\* refused: the job is RUNNING with attempt_count 1.
C17_Witness ==
    /\ requests = 3
    /\ Len(jobs) = 1
    /\ jobs[1].status = "RUNNING" /\ jobs[1].attempt_count = 1
    /\ client["c1"].pc = "idle" /\ client["c1"].res = "not_claimed"
    /\ client["c2"] = IdleClient

\* C18: a worker that picks up a delivered item and finds the job not
\* PENDING changes nothing: the job rows, the ledger and the webhook
\* deliveries stay as they were and the run goes on to no cache lookup, no
\* external compute and no failure handling.
C18_RedeliveryIsNoOp ==
    [][\A w \in Workers :
          ( /\ worker[w].pc = "read"
            /\ worker'[w] # worker[w]
            /\ jobs[worker[w].job].status # "PENDING" ) =>
              /\ jobs' = jobs
              /\ credit' = credit
              /\ txns' = txns
              /\ deliveries' = deliveries
              /\ worker'[w].pc \in {"idle", "return"}]_vars

\* C19: a run that exceeds job_timeout is handled like one that raised, so
\* the job does not stay RUNNING: a job that is RUNNING eventually is not
\* (it is PENDING for its retry, FAILED or COMPLETED).
C19_TimedOutJobLeavesRunning ==
    \A j \in JobIds :
        (j \in 1..Len(jobs) /\ jobs[j].status = "RUNNING")
            ~> (j \in 1..Len(jobs) /\ jobs[j].status # "RUNNING")

\* C20: for an organisation with a webhook URL, the step that makes a job
\* COMPLETED or FAILED dispatches the webhook (one more send_webhook task for
\* the job) or leaves the run about to dispatch it.
C20_TerminalTriggersDispatch ==
    [][\A j \in 1..Len(jobs) :
          ( /\ ~Terminal(jobs[j].status)
            /\ Terminal(jobs'[j].status)
            /\ webhook[jobs[j].org] ) =>
              \/ deliveries'[j] = deliveries[j] + 1
              \/ \E w \in Workers :
                     worker[w].job = j /\ worker'[w].pc = "notify"]_vars

\* C21: a failure while notifying never changes a job's status: the run
\* that committed a job COMPLETED and then failed to notify leaves the job
\* COMPLETED in every step it takes afterwards.
C21_NotifyFailureKeepsStatus ==
    [][\A w \in Workers :
          ( /\ worker[w].pc = "failed"
            /\ worker'[w] # worker[w]
            /\ jobs[worker[w].job].status = "COMPLETED" ) =>
              jobs'[worker[w].job].status = "COMPLETED"]_vars

\* the delays the POSTs of the current send_webhook task were made after
Delays == [i \in 1..Len(delivery.posts) |-> delivery.posts[i].after]

AlwaysAnswered(r) ==
    \A i \in 1..Len(delivery.posts) : delivery.posts[i].response = r

\* C22: a webhook endpoint that always answers 500 receives exactly 3
\* delivery attempts, made after delays of 5s, 25s and 125s, and the delivery
\* then has status 'failed' with attempts = 3.
C22_ThreeAttemptsAtTheDelays ==
    (delivery.pc = "done" /\ AlwaysAnswered(500)) =>
        /\ Len(delivery.posts) = 3
        /\ Delays = WEBHOOK_DELAYS
        /\ delivery.rows[CurrentRow].status = "failed"
        /\ delivery.rows[CurrentRow].attempts = 3

\* C23: the delivery state machine.  A 2xx response sets the row to
\* 'delivered' and ends the task; any other response, or a network error,
\* records the response code or the error and, while attempts remain, leaves
\* the row 'pending' with next_retry_at set; a 'delivered' or 'failed' row
\* never changes and gets no further attempt; attempts never exceeds 3.
C23_DeliveryStateMachine ==
    /\ [](\A k \in 1..Len(delivery.rows) : delivery.rows[k].attempts <= 3)
    /\ [][/\ \A k \in 1..Len(delivery.rows) :
                delivery.rows[k].status \in {"delivered", "failed"} =>
                    /\ delivery.rows'[k] = delivery.rows[k]
                    /\ k = CurrentRow => delivery.posts' \in {delivery.posts, <<>>}
          /\ Len(delivery.posts') > Len(delivery.posts) =>
                LET r == delivery.posts'[Len(delivery.posts')].response
                    old == delivery.rows[CurrentRow]
                    new == delivery.rows'[CurrentRow]
                IN  IF r \in 200..299
                    THEN new.status = "delivered" /\ delivery.pc' = "done"
                    ELSE /\ IF r = NoResponse
                            THEN new.error_message = "exception"
                            ELSE new.response_code = r
                         /\ old.attempts < 3 =>
                               /\ new.status = "pending"
                               /\ new.next_retry_at > 0]_vars

\* a delivered row, a failed row, and a pending row waiting for its retry
C23_Witness ==
    /\ Len(delivery.rows) = 2
    /\ delivery.rows[1].status = "delivered"
    /\ delivery.rows[1].attempts = 2
    /\ delivery.rows[2].status = "pending"
    /\ delivery.rows[2].next_retry_at = 25
    /\ delivery.rows[1].response_code = 204

\* C24: send_webhook commits the delivery row, 'pending' with attempts = 0,
\* before it makes the first network attempt: the row is inserted while no
\* POST has been made, and every POST is made for a row that exists.
C24_RecordBeforeAttempt ==
    /\ [](delivery.posts # <<>> => CurrentRow > 0)
    /\ [][/\ Len(delivery.rows') > Len(delivery.rows) =>
                /\ delivery.rows'[Len(delivery.rows')].status = "pending"
                /\ delivery.rows'[Len(delivery.rows')].attempts = 0
                /\ delivery.posts' = <<>>
          /\ Len(delivery.posts') > Len(delivery.posts) =>
                /\ Len(delivery.rows') = Len(delivery.rows)
                /\ delivery.rows[CurrentRow].org = delivery.org
                /\ delivery.rows[CurrentRow].attempts = Len(delivery.posts')]_vars

\* the first POST of a task has been made
C24_Witness ==
    /\ Len(delivery.posts) = 1
    /\ delivery.rows[CurrentRow].attempts = 1

\* C25: when the organisation has no webhook URL, or does not exist, a
\* notification trigger does nothing: no row is created, no task is spawned
\* that would make a network attempt, and no error is raised.
C25_NoUrlNoDispatch ==
    [][(/\ delivery.triggers' > delivery.triggers
        /\ IF delivery.org' \in Orgs THEN ~webhook[delivery.org'] ELSE TRUE) =>
            /\ delivery.rows' = delivery.rows
            /\ delivery.pc' = "idle"
            /\ delivery.outcome' = "skipped"]_vars

\* the checks made for organisation o, oldest first
ChecksOf(o) == SelectSeq(limiter.log, LAMBDA e : e.org = o)

\* all of them got their answer from Redis, inside one window
InOneWindow(cs) ==
    /\ cs # <<>>
    /\ \A k \in 1..Len(cs) : cs[k].fail = "none"
    /\ cs[Len(cs)].at - cs[1].at < WindowTicks

\* C26: with the counter store reachable, N sequential checks for one
\* organisation made inside one window admit exactly the first min(N, limit)
\* and deny the rest, and every denial carries retry_after > 0.
C26_FirstLimitAdmitted ==
    \A o \in Orgs :
        LET cs == ChecksOf(o)
        IN  InOneWindow(cs) =>
                \A k \in 1..Len(cs) :
                    /\ cs[k].allowed <=> k <= limit
                    /\ ~cs[k].allowed => cs[k].retry_after > 0

\* the check just answered, and the time (in ticks) until the oldest member
\* left after pruning leaves the window
LastCheck == limiter.log'[Len(limiter.log')]

Remaining(o) == WindowTicks - (limiter.now - Oldest(Pruned(o)))

Checked == Len(limiter.log') > Len(limiter.log)

\* C27: on a denial retry_after = max(1, W - (now - oldest)) for the oldest
\* timestamp left after pruning, so 1 <= retry_after <= W; on admission
\* retry_after = 0.
C27_RetryAfterExact ==
    [][Checked =>
         IF LastCheck.allowed THEN LastCheck.retry_after = 0
         ELSE /\ LastCheck.retry_after * TicksPerSecond =
                    (IF Remaining(LastCheck.org) > TicksPerSecond
                     THEN Remaining(LastCheck.org) ELSE TicksPerSecond)
              /\ LastCheck.retry_after >= 1
              /\ LastCheck.retry_after <= window]_vars

\* C27, as the code computes it: on a denial retry_after is the whole number
\* of seconds in W - (now - oldest), and at least 1, so 1 <= retry_after <= W;
\* on admission retry_after = 0.
C27_RetryAfterWholeSeconds ==
    [][Checked =>
         IF LastCheck.allowed THEN LastCheck.retry_after = 0
         ELSE /\ LastCheck.retry_after =
                    (IF Remaining(LastCheck.org) \div TicksPerSecond > 1
                     THEN Remaining(LastCheck.org) \div TicksPerSecond ELSE 1)
              /\ LastCheck.retry_after >= 1
              /\ LastCheck.retry_after <= window]_vars

\* a denial made half a second after the oldest admission: a second and a
\* half remain, and retry_after is 1
C27_Witness ==
    \E i \in 1..Len(limiter.log) :
        /\ ~limiter.log[i].allowed
        /\ limiter.log[i].retry_after = 1
        /\ limiter.log[i].at = 1
        /\ limiter.zset[limiter.log[i].org] = {0, 1}

\* C28: when a counter-store operation fails, is_allowed answers allowed with
\* retry_after = 0 and check_rate_limit raises nothing, so the request goes on
\* as if admitted.
C28_FailOpen ==
    [][(Checked /\ LastCheck.fail # "none") =>
          /\ LastCheck.allowed
          /\ LastCheck.retry_after = 0
          /\ LastCheck.status = 200]_vars

\* the limit was reached, the lookup of the oldest member failed, and the
\* request was admitted
C28_Witness ==
    \E i \in 1..Len(limiter.log) :
        /\ limiter.log[i].fail = "zrange"
        /\ limiter.log[i].allowed
        /\ Cardinality(limiter.zset[limiter.log[i].org]) = limit

\* job i is a completed job with the type and input of job j
CompletedTwin(i, j) ==
    /\ i # j
    /\ jobs[i].type = jobs[j].type
    /\ jobs[i].text = jobs[j].text
    /\ jobs[i].status = "COMPLETED"

\* C29: for two jobs with the same (job_type, input) processed within the
\* cache TTL, of either type, the worker of the second gets a cache hit: it
\* never calls the external compute service for a job that has a completed
\* twin, and such a job completes with the cached output.
C29_SecondJobHitsCache ==
    /\ \A w \in Workers :
          worker[w].pc = "compute" =>
              ~\E i \in 1..Len(jobs) : CompletedTwin(i, worker[w].job)
    /\ \A j \in 1..Len(jobs) :
          (jobs[j].status = "COMPLETED" /\ jobs[j].output = "fresh") =>
              \A i \in 1..Len(jobs) :
                  CompletedTwin(i, j) => jobs[i].output = "cached"

\* C30: an unavailable cache looks like a miss.  A lookup that does not hit
\* sends the run on to the external compute call, with no job and no cache
\* entry changed and nothing raised; a compute call that returns completes
\* the job with the fresh output whether or not the result could be stored.
C30_CacheDownIsAMiss ==
    [][\A w \in Workers :
          LET j == worker[w].job
          IN  /\ (worker[w].pc = "lookup" /\ worker'[w] # worker[w]) =>
                    \/ /\ jobs[j].text \in cache
                       /\ worker'[w].pc = "return"
                       /\ jobs'[j].status = "COMPLETED"
                       /\ jobs'[j].output = "cached"
                    \/ /\ worker'[w].pc = "compute"
                       /\ jobs' = jobs
                       /\ cache' = cache
              /\ (worker[w].pc = "compute" /\ worker'[w].pc = "notify") =>
                    /\ jobs'[j].status = "COMPLETED"
                    /\ jobs'[j].output = "fresh"
                    /\ cache' \in {cache, cache \cup {jobs[j].text}}]_vars

\* a run that is computing a summary the cache holds: its lookup failed
C30_Witness ==
    \E w \in Workers :
        /\ worker[w].pc = "compute"
        /\ jobs[worker[w].job].type = "summarize"
        /\ jobs[worker[w].job].text \in cache

\* a REFUND row that gives organisation o the amount a back
RefundedTo(o, a) ==
    \E i \in DOMAIN txns :
        txns[i].kind = "REFUND" /\ txns[i].org = o /\ txns[i].amount = a

\* C31: when a submission has deducted credits and then fails to queue the
\* job, the credits are refunded: once the request is answered, no job that
\* was never queued is left without a refund of its cost.
C31_UnqueuedJobRefunded ==
    \A j \in 1..Len(jobs) :
        (item[j].state = "none" /\ \A c \in Clients : client[c].pc = "idle") =>
            RefundedTo(jobs[j].org, Cost(jobs[j].type))

\* the ids a reply lists
Listed(r) == {r.list[i] : i \in 1..Len(r.list)}

\* C32: tenant isolation of job queries.  A user of organisation A who asks
\* for a job gets it only when the job exists and belongs to A, and gets
\* "not found" for a job of another organisation; the list for A holds
\* exactly the jobs of A, whatever jobs other organisations have.
C32_JobQueriesScoped ==
    [][reply' # reply =>
         /\ reply'.op = "get" =>
               IF reply'.job \in 1..Len(jobs) /\ jobs[reply'.job].org = reply'.org
               THEN reply'.status = 200 /\ reply'.found = reply'.job
               ELSE reply'.status = 404 /\ reply'.found = NoJob
         /\ reply'.op = "list" =>
               Listed(reply') =
                   {j \in 1..Len(jobs) : jobs[j].org = reply'.org}]_vars

\* a user asked for a job of another organisation and was told "not found",
\* while both organisations have jobs
C32_Witness ==
    /\ reply.op = "get"
    /\ reply.status = 404
    /\ reply.job \in 1..Len(jobs)
    /\ jobs[reply.job].org # reply.org
    /\ \E j \in 1..Len(jobs) : jobs[j].org = reply.org

\* C33: complete_job on a RUNNING job sets status COMPLETED, stores the
\* output and sets completed_at, and changes no other job; for an unknown job
\* id it returns nothing and changes no job.
C33_CompleteJob ==
    [][\A c \in Clients :
          LET j == client[c].job
          IN  /\ ( /\ client[c].op = "complete"
                   /\ client[c].pc = "job_commit"
                   /\ client'[c] # client[c]
                   /\ jobs[j].status = "RUNNING" ) =>
                     /\ jobs'[j].status = "COMPLETED"
                     /\ jobs'[j].output = "fresh"
                     /\ jobs'[j].completed
                     /\ \A i \in 1..Len(jobs) : i # j => jobs'[i] = jobs[i]
                     /\ client'[c].res = "ok"
              /\ ( /\ client[c].op = "complete"
                   /\ client[c].pc = "job_read"
                   /\ client'[c] # client[c]
                   /\ j \notin 1..Len(jobs) ) =>
                     /\ jobs' = jobs
                     /\ client'[c].pc = "idle"
                     /\ client'[c].res = "not_found"]_vars

\* a job that was created, claimed and then completed
C33_Witness ==
    /\ Len(jobs) = 1
    /\ jobs[1].status = "COMPLETED" /\ jobs[1].attempt_count = 1
    /\ jobs[1].started /\ jobs[1].completed /\ jobs[1].output = "fresh"
    /\ client["c1"].pc = "idle" /\ client["c1"].res = "ok"
    /\ requests = 3

\* C34: refund_credits on an existing account increases the balance by the
\* amount and appends exactly one REFUND row, in one commit; for an
\* organisation without an account it reports failure and appends nothing.
C34_RefundAddsAmount ==
    [][\A c \in Clients :
          LET o == client[c].org
              a == client[c].amount
          IN  ( /\ client[c].op = "refund"
                /\ client[c].pc \in {"refund_read", "refund_commit"}
                /\ client'[c] # client[c] ) =>
                  IF client[c].pc = "refund_commit"
                  THEN /\ credit'[o].balance = credit[o].balance + a
                       /\ NewRows = <<Txn(o, a, "REFUND", NoJob)>>
                       /\ client'[c].res = "ok"
                  ELSE /\ credit' = credit
                       /\ txns' = txns
                       /\ ~credit[o].exists <=> client'[c].res = "refund_failed"]_vars

\* C35: create_job inserts a PENDING job with attempt_count 0, and a claim
\* that succeeds on a PENDING job makes it RUNNING, sets started_at and adds
\* exactly 1 to attempt_count.
C35_CreateAndClaim ==
    [][/\ Len(jobs') > Len(jobs) =>
             /\ Len(jobs') = Len(jobs) + 1
             /\ jobs'[Len(jobs')].status = "PENDING"
             /\ jobs'[Len(jobs')].attempt_count = 0
             /\ ~jobs'[Len(jobs')].started
       /\ \A c \in Clients :
             LET j == client[c].job
             IN  ( /\ client[c].op = "claim"
                   /\ client[c].pc = "job_commit"
                   /\ client'[c] # client[c]
                   /\ jobs[j].status = "PENDING" ) =>
                     /\ jobs'[j].status = "RUNNING"
                     /\ jobs'[j].started
                     /\ jobs'[j].attempt_count = jobs[j].attempt_count + 1
                     /\ client'[c].res = "claimed"]_vars

\* a job that was created and then claimed
C35_Witness ==
    /\ Len(jobs) = 1
    /\ jobs[1].status = "RUNNING" /\ jobs[1].attempt_count = 1
    /\ jobs[1].started /\ ~jobs[1].completed
    /\ client["c1"].pc = "idle" /\ client["c1"].res = "claimed"
    /\ requests = 2

\* the admitted checks of organisation o made from time t on, within one
\* window
AdmittedFrom(o, t) ==
    {i \in 1..Len(limiter.log) :
        /\ limiter.log[i].org = o
        /\ limiter.log[i].allowed
        /\ limiter.log[i].at >= t
        /\ limiter.log[i].at < t + WindowTicks}

\* C36: the sliding-window bound: for every organisation and every interval
\* of length W, at most limit checks made in the interval are admitted, also
\* when checks carry the same timestamp or run concurrently.
C36_WindowBound ==
    \A o \in Orgs : \A t \in 0..MaxTime :
        Cardinality(AdmittedFrom(o, t)) <= limit

\* C37: a submission denied by the rate limiter has no other effect: the
\* balances, the transactions, the jobs and the queue stay as they were and
\* the request ends there; and the denied check adds no timestamp to the
\* organisation's set, from which only expired entries are removed.
C37_DeniedSubmissionChangesNothing ==
    [][(Checked /\ ~LastCheck.allowed) =>
          /\ credit' = credit
          /\ txns' = txns
          /\ jobs' = jobs
          /\ item' = item
          /\ limiter.zset[LastCheck.org] \ limiter'.zset[LastCheck.org]
                \subseteq {t \in limiter.zset[LastCheck.org] :
                              t <= limiter.now - WindowTicks}
          /\ limiter'.zset[LastCheck.org] \subseteq limiter.zset[LastCheck.org]
          /\ \A c \in Clients :
                client'[c] # client[c] =>
                    client'[c].pc = "idle" /\ client'[c].res = "rate_limited"]_vars

\* two submissions were admitted and paid, the third was denied
C37_Witness ==
    /\ Len(limiter.log) = 3
    /\ ~limiter.log[3].allowed
    /\ Len(txns) = 2
    /\ \E c \in Clients : client[c].pc = "idle" /\ client[c].res = "rate_limited"

TxnsOf(o) == SelectSeq(txns, LAMBDA r : r.org = o)

\* the organisation a step is made for: the one whose deduct or refund call
\* moves, or the one of the is_allowed answer the step logs
ActsFor(o) ==
    \/ \E c \in Clients :
          /\ client[c].op \in {"deduct", "refund"}
          /\ client[c].org = o
          /\ client'[c] # client[c]
    \/ /\ Len(limiter'.log) = Len(limiter.log) + 1
       /\ limiter'.log[Len(limiter'.log)].org = o

\* C39: a step of a deduct, refund or is_allowed call for organisation A
\* leaves the balance, the ledger rows and the rate-limit timestamps of every
\* other organisation B unchanged, and with them B's balance as read by
\* get_balance and the number of B's timestamps in the window.
C39_TenantIsolation ==
    [][\A a \in Orgs, b \in Orgs :
          (a # b /\ ActsFor(a)) =>
              /\ credit'[b] = credit[b]
              /\ TxnsOf(b)' = TxnsOf(b)
              /\ limiter'.zset[b] = limiter.zset[b]
              /\ get_balance(b)' = get_balance(b)
              /\ {t \in limiter'.zset[b] : t > limiter'.now - WindowTicks}
                   = {t \in limiter.zset[b] : t > limiter.now - WindowTicks}]_vars

\* o2 holds a changed balance, a ledger row and a timestamp, and a deduction
\* for o1 has been committed
C39_Witness ==
    /\ credit["o2"].exists /\ TxnsOf("o2") # <<>> /\ limiter.zset["o2"] # {}
    /\ \E i \in 1..Len(txns) : txns[i].org = "o1" /\ txns[i].kind = "DEDUCTION"
    /\ credit["o1"].balance < initial["o1"]
    /\ credit["o2"].balance # initial["o2"]

====
